---- MODULE Spec2Model ----
(***************************************************************************)
(* Model of the OCR native-messaging host (src/main.py, src/messages.py):  *)
(* the entry store hash_to_entry, its snapshot file, the screenshot files, *)
(* the framed request loop run_listener and the SIGTERM handler.           *)
(*                                                                         *)
(* Text is a sequence of one-character strings, bytes are sequences of     *)
(* numbers 0..255, a Python dict is a sequence of key/value pairs in       *)
(* insertion order.  The snapshot file holds the JSON value (an array of   *)
(* objects) that json_dumps writes and json_loads reads back.              *)
(***************************************************************************)
EXTENDS Integers, Sequences, FiniteSets, TLC

VARIABLES
    pc,             \* position of the main thread
    hash_to_entry,  \* the store: insertion-ordered dict  hash -> Entry
    snapshot,       \* the file ENTRY_LIST_PATH
    files,          \* the files under SCREENSHOTS_DIRECTORY
    out,            \* messages written with write_message, in order
    msg,            \* <<message>> decoded from the current frame, or <<>>
    entry,          \* <<entry>> built by the current Add, or <<>>
    log,            \* the log lines of this process, as a set of kinds
    fatal,          \* what ended the process through line 178-180, or "none"
    handlerInstalled, \* whether signal(SIGTERM, save_hash_to_entry) has run in this process
    run,            \* number of the current process (1 = first start)
    framesRead,     \* frames read so far, over all processes
    queriesRead,    \* history: request ids of the Query requests read by this process
    lastSave,       \* history: who wrote the snapshot file last
    savedStore,     \* history: the store at the moment the snapshot file was last written
    preRestart,     \* history: savedStore at the moment this process was started
    disk,           \* the content of ENTRY_LIST_PATH, as the pieces written to it
    saves,          \* the calls of save_hash_to_entry in progress, innermost last
    interrupted,    \* history: a save that a signal interrupted after its open has finished
    writes          \* history: how often each screenshot path was written

vars == << pc, hash_to_entry, snapshot, files, out, msg, entry, log, fatal,
           handlerInstalled, run, framesRead, queriesRead, lastSave, savedStore, preRestart,
           disk, saves, interrupted, writes >>

----------------------------------------------------------------------------
(* Bounds of the exploration *)

MaxFrames == 3
MaxRuns == 2

----------------------------------------------------------------------------
(* Sequences and sets *)

Range(s) == { s[i] : i \in DOMAIN s }

RECURSIVE SetToSeq(_)
SetToSeq(S) ==
    IF S = {} THEN << >>
    ELSE LET x == CHOOSE y \in S : TRUE IN << x >> \o SetToSeq(S \ {x})

RECURSIVE ByteSum(_)
ByteSum(b) == IF b = << >> THEN 0 ELSE b[1] + ByteSum(Tail(b))

RECURSIVE Pow2(_)
Pow2(n) == IF n = 0 THEN 1 ELSE 2 * Pow2(n - 1)

----------------------------------------------------------------------------
(* Strings: str.split, str.lower, str.encode, bytes.hex, bytes.fromhex *)

IsSpace(c) == c = " "

LowerChar(c) ==
    CASE c = "H" -> "h"
      [] c = "Y" -> "y"
      [] c = "A" -> "a"
      [] OTHER -> c

Lower(w) == [ i \in DOMAIN w |-> LowerChar(w[i]) ]

\* str.split(): the maximal runs of non-whitespace characters, in order
RECURSIVE SplitFrom(_, _, _)
SplitFrom(s, i, cur) ==
    IF i > Len(s)
    THEN IF cur = << >> THEN << >> ELSE << cur >>
    ELSE IF IsSpace(s[i])
         THEN (IF cur = << >> THEN << >> ELSE << cur >>) \o SplitFrom(s, i + 1, << >>)
         ELSE SplitFrom(s, i + 1, Append(cur, s[i]))

Split(s) == SplitFrom(s, 1, << >>)

ByteOf(c) ==
    CASE c = "h" -> 104
      [] c = "i" -> 105
      [] c = "y" -> 121
      [] c = "o" -> 111
      [] c = "a" -> 97
      [] c = "H" -> 72
      [] c = "Y" -> 89
      [] c = "A" -> 65
      [] OTHER -> 32

Encode(w) == [ i \in DOMAIN w |-> ByteOf(w[i]) ]

HexDigits == << "0", "1", "2", "3", "4", "5", "6", "7",
                "8", "9", "a", "b", "c", "d", "e", "f" >>

HexChar(n) == HexDigits[n + 1]

HexVal(c) == CHOOSE n \in 0..15 : HexDigits[n + 1] = c

\* hex digits without the leading zero of a small byte
RECURSIVE HexNoPad(_)
HexNoPad(b) ==
    IF b = << >> THEN << >>
    ELSE (IF b[1] < 16 THEN << HexChar(b[1]) >>
          ELSE << HexChar(b[1] \div 16), HexChar(b[1] % 16) >>) \o HexNoPad(Tail(b))

\* bytes.hex(): two digits per byte, high digit first
RECURSIVE Hex(_)
Hex(b) ==
    IF b = << >> THEN << >>
    ELSE << HexChar(b[1] \div 16), HexChar(b[1] % 16) >> \o Hex(Tail(b))

FromHexOk(s) == Len(s) % 2 = 0 /\ \A i \in DOMAIN s : s[i] \in Range(HexDigits)

\* bytes.fromhex(): one byte per pair of digits
FromHex(s) == [ i \in 1..(Len(s) \div 2) |-> 16 * HexVal(s[2 * i - 1]) + HexVal(s[2 * i]) ]

----------------------------------------------------------------------------
(* The Python dict: pairs [k, v] in insertion order, at most one per key *)

Keys(d) == { d[i].k : i \in DOMAIN d }

\* a membership test that never finds the key
DictHas_Never(d, key) == FALSE

\* key in d
DictHas(d, key) == key \in Keys(d)

\* an assignment that starts the dict over with the one item
DictSet_StartOver(d, key, value) == << [k |-> key, v |-> value] >>

\* d[key] = value: replaces the value of a present key in place, appends a new key
DictSet(d, key, value) ==
    IF key \in Keys(d)
    THEN [ i \in DOMAIN d |-> IF d[i].k = key THEN [k |-> key, v |-> value] ELSE d[i] ]
    ELSE Append(d, [k |-> key, v |-> value])

\* list(d.values())
Values(d) == [ i \in DOMAIN d |-> d[i].v ]

----------------------------------------------------------------------------
(* pyutils.bloom_filter.BloomFilter, by its contract: a bit array sized    *)
(* from the number of values, no false negatives, false positives allowed, *)
(* export_bytes / import_bytes a lossless pair.                            *)

BloomBitsPerValue == 2

BloomPositions(token, m) ==
    { ByteSum(token) % m, (ByteSum(token) \div m + Len(token)) % m }

\* BloomFilter.from_values_2(values, capacity_proportion)
from_values_2(values, capacity_proportion) ==
    LET m == BloomBitsPerValue * Cardinality(values) * capacity_proportion
    IN  [ m |-> m, bits |-> UNION { BloomPositions(t, m) : t \in values } ]

\* token in bloom_filter
BloomContains(bf, token) == BloomPositions(token, bf.m) \subseteq bf.bits

BloomByte(bits, j) ==
    LET RECURSIVE Sum(_)
        Sum(i) == IF i > 7 THEN 0
                  ELSE (IF (8 * j + i) \in bits THEN Pow2(i) ELSE 0) + Sum(i + 1)
    IN  Sum(0)

\* BloomFilter.export_bytes(): the size, then the bits packed eight to a byte
export_bytes(bf) ==
    << bf.m >> \o [ j \in 1..((bf.m + 7) \div 8) |-> BloomByte(bf.bits, j - 1) ]

\* BloomFilter.import_bytes(data)
import_bytes(data) ==
    [ m    |-> data[1],
      bits |-> { i \in 0..(data[1] - 1) :
                    (data[2 + (i \div 8)] \div Pow2(i % 8)) % 2 = 1 } ]

----------------------------------------------------------------------------
(* Entry, its image path, and the snapshot's serialization *)

SCREENSHOTS_DIRECTORY == "./screenshots"
IMG_HOST == "http://localhost:4545"

Entry(url, title, timestamp_ms, hash_value, bloom_filter) ==
    [ url |-> url, title |-> title, timestamp_ms |-> timestamp_ms,
      hash_value |-> hash_value, bloom_filter |-> bloom_filter ]

\* a path made of the timestamp alone
image_path_NoHash(e) == << SCREENSHOTS_DIRECTORY, << e.timestamp_ms, ".png" >> >>

\* the file name f'{timestamp_ms}_{hash_value.hex()}.png'
image_name(e) == << e.timestamp_ms, "_", Hex(e.hash_value), ".png" >>

image_path(e) == << SCREENSHOTS_DIRECTORY, image_name(e) >>

\* a serializer whose hash digits lose their leading zeros
custom_serializer_NoPad(obj) ==
    [ url          |-> obj.url,
      title        |-> obj.title,
      timestamp_ms |-> obj.timestamp_ms,
      hash_value   |-> HexNoPad(obj.hash_value),
      bloom_filter |-> HexNoPad(export_bytes(obj.bloom_filter)) ]

\* json default= hook: a dataclass becomes its dict, whose bytes and BloomFilter
\* fields then pass through the hook again and become hex strings
custom_serializer(obj) ==
    [ url          |-> obj.url,
      title        |-> obj.title,
      timestamp_ms |-> obj.timestamp_ms,
      hash_value   |-> Hex(obj.hash_value),
      bloom_filter |-> Hex(export_bytes(obj.bloom_filter)) ]

\* the text json_dumps gives for a list of serialized entries, in pieces: the
\* opening bracket, one piece per entry, the closing bracket
Pieces(content) ==
    << [kind |-> "["] >>
       \o [ i \in DOMAIN content |-> [kind |-> "entry", json |-> content[i]] ]
       \o << [kind |-> "]"] >>

\* json_dumps(list(hash_to_entry.values()), default=custom_serializer)
json_dumps(d) == Pieces([ i \in DOMAIN d |-> custom_serializer(Values(d)[i]) ])

\* a file opened for appending: its text stays, the position is its end
open_ab(old) == [ text |-> old, pos |-> Len(old) ]

\* Path.write_bytes opens the file with mode 'wb': the file is emptied, and the
\* position of the new file object is its start
open_wb(old) == [ text |-> << >>, pos |-> 0 ]

\* a write that goes to the end of the file, wherever the file object stands
WriteAt_Append(text, pos, piece) == Append(text, piece)

\* a write of one piece at the position of the file object: over the piece
\* that is there, at the end, or past the end behind a hole
WriteAt(text, pos, piece) ==
    IF pos < Len(text)
    THEN [ text EXCEPT ![pos + 1] = piece ]
    ELSE text \o [ i \in 1..(pos - Len(text)) |-> [kind |-> "hole"] ] \o << piece >>

\* f.write(data), not interrupted: WriteAt for the pieces of the data one
\* after the other from the position
WriteFrom(text, pos, data) ==
    IF data = << >> THEN text
    ELSE SubSeq(text, 1, IF pos < Len(text) THEN pos ELSE Len(text))
            \o [ i \in 1..(pos - Len(text)) |-> [kind |-> "hole"] ]
            \o data
            \o SubSeq(text, pos + Len(data) + 1, Len(text))

\* ENTRY_LIST_PATH.write_bytes(data), not interrupted: open, write, close
write_bytes(old, data) == WriteFrom(open_wb(old).text, open_wb(old).pos, data)

\* json_loads of the file's text: an array of entries between its brackets,
\* or a ValueError
json_loads(text) ==
    IF /\ Len(text) >= 2
       /\ text[1].kind = "["
       /\ text[Len(text)].kind = "]"
       /\ \A i \in 2..(Len(text) - 1) : text[i].kind = "entry"
    THEN [ status |-> "ok", content |-> [ i \in 1..(Len(text) - 2) |-> text[i + 1].json ] ]
    ELSE [ status |-> "malformed", content |-> << >> ]

\* what save_hash_to_entry writes: json_dumps(list(hash_to_entry.values()), default=...)
SnapshotOf(d) ==
    [ status  |-> "ok",
      content |-> [ i \in DOMAIN d |-> custom_serializer(Values(d)[i]) ] ]

\* the dict comprehension of main(): one item per JSON entry, keyed by its hash
RECURSIVE LoadFrom(_, _, _)
LoadFrom(content, i, d) ==
    IF i > Len(content) THEN d
    ELSE LET j == content[i]
         IN  LoadFrom(content, i + 1,
                      DictSet(d, FromHex(j.hash_value),
                              Entry(j.url, j.title, j.timestamp_ms,
                                    FromHex(j.hash_value),
                                    import_bytes(FromHex(j.bloom_filter)))))

\* a loader that misses the first entry of the file
LoadEntries_SkipFirst(content) == LoadFrom(content, 2, << >>)

LoadEntries(content) == LoadFrom(content, 1, << >>)

\* every hex field of the file parses: otherwise bytes.fromhex raises ValueError
LoadOk(content) ==
    \A i \in DOMAIN content :
        FromHexOk(content[i].hash_value) /\ FromHexOk(content[i].bloom_filter)

----------------------------------------------------------------------------
(* The environment: images, their recognized text, the frames a client sends *)

\* resources/english_stop_words, as the set of its lines
english_stop_words == { << "a" >> }

\* base64 texts of the three image byte strings 0x01, 0x02, 0x03
B64Images == { "AQ==", "Ag==", "Aw==" }

b64decode(s) ==
    CASE s = "AQ==" -> << 1 >>
      [] s = "Ag==" -> << 2 >>
      [] s = "Aw==" -> << 3 >>

\* sha3_256(image_data).digest(), cut to two bytes; distinct images, distinct digests
sha3_256(image_data) ==
    CASE image_data = << 1 >> -> << 10, 193 >>
      [] image_data = << 2 >> -> << 255, 7 >>
      [] image_data = << 3 >> -> << 0, 160 >>

\* pytesseract.image_to_string of the decoded image:
\*   0x01 "Hi yo hi",  0x02 "A a" (stop words only),  0x03 "yo  A"
image_to_string(image_data) ==
    CASE image_data = << 1 >> -> << "H", "i", " ", "y", "o", " ", "h", "i" >>
      [] image_data = << 2 >> -> << "A", " ", "a" >>
      [] image_data = << 3 >> -> << "y", "o", " ", " ", "A" >>

QueryTexts ==
    { << "h", "i" >>,
      << "Y", "o", " ", " ", "h", "i", " ", "y", "o" >>,
      << "a" >>,
      << " " >> }

PageMeta ==
    { [url |-> "https://a.example", title |-> "A", timestamp_ms |-> 1000],
      [url |-> "https://b.example", title |-> "B", timestamp_ms |-> 2000] }

AddFrames ==
    { [type |-> "add", request_id |-> 1, base64_img_data |-> b,
       url |-> p.url, title |-> p.title, timestamp_ms |-> p.timestamp_ms]
      : b \in B64Images, p \in PageMeta }

QueryFrames ==
    { [type |-> "query", request_id |-> r, query |-> q] : r \in {7, 8}, q \in QueryTexts }

\* frames the codec rejects: an unknown type, no type at all, a missing field
BadFrames ==
    { [type |-> "delete", request_id |-> 9],
      [request_id |-> 9, query |-> << "h", "i" >>],
      [type |-> "query", request_id |-> 9] }

Frames == AddFrames \cup QueryFrames \cup BadFrames

----------------------------------------------------------------------------
(* messages.py: RequestMessage.from_bytes *)

AddFields == { "request_id", "base64_img_data", "url", "title", "timestamp_ms" }
QueryFields == { "request_id", "query" }

\* the decoded message, or the exception the constructor chain raises
from_bytes(frame) ==
    IF "type" \notin DOMAIN frame
    THEN [ok |-> FALSE, exc |-> "KeyError"]
    ELSE LET fields == DOMAIN frame \ {"type"}
         IN  IF frame.type = "add"
             THEN IF fields = AddFields
                  THEN [ok |-> TRUE, message |-> frame]
                  ELSE [ok |-> FALSE, exc |-> "TypeError"]
             ELSE IF frame.type = "query"
             THEN IF fields = QueryFields
                  THEN [ok |-> TRUE, message |-> frame]
                  ELSE [ok |-> FALSE, exc |-> "TypeError"]
             ELSE [ok |-> FALSE, exc |-> "ValueError"]

----------------------------------------------------------------------------
(* run_listener: the pure parts of the Add and Query branches *)

\* the words of a text: split, lowercased, as a set
LowerWords(text) == { Lower(w) : w \in Range(Split(text)) }

\* the encoded words with the stop words left in
encoded_words_KeepStopWords(image_data, stop_words) ==
    { Encode(w) : w \in LowerWords(image_to_string(image_data)) }

\* lines 86-97: the encoded words of the image, stop words removed
encoded_words(image_data, stop_words) ==
    { Encode(w) : w \in LowerWords(image_to_string(image_data)) \ stop_words }

QueryResponseEntry(e) ==
    [ screenshot_src |-> << IMG_HOST, "/", image_name(e) >>,
      url            |-> e.url,
      title          |-> e.title,
      timestamp_ms   |-> e.timestamp_ms ]

\* a filter test that passes an entry only when it contains every query word
Hits_AllWords(e, words) ==
    IF \A n \in DOMAIN words : BloomContains(e.bloom_filter, Encode(words[n]))
    THEN words ELSE << >>

\* lines 130-131: the query words that pass the test of the entry's filter
Hits(e, words) ==
    SelectSeq(words, LAMBDA w : BloomContains(e.bloom_filter, Encode(w)))

\* lines 122-132: for each entry, in dict order, one record per query word its
\* filter contains.  The records of one entry are equal, so the iteration order
\* of the word set does not show in the result.
RECURSIVE EntriesFrom(_, _, _)
EntriesFrom(values, i, words) ==
    IF i > Len(values) THEN << >>
    ELSE [ n \in 1..Len(Hits(values[i], words)) |-> QueryResponseEntry(values[i]) ]
         \o EntriesFrom(values, i + 1, words)

\* one record for each entry that contains some query word
QueryEntries_OncePerEntry(d, query) ==
    LET words == SetToSeq(LowerWords(query))
        matching == SelectSeq(Values(d), LAMBDA e : Hits(e, words) # << >>)
    IN  [ n \in DOMAIN matching |-> QueryResponseEntry(matching[n]) ]

\* the records for the first word of the query only
QueryEntries_FirstWord(d, query) ==
    LET all == Split(query)
    IN  EntriesFrom(Values(d), 1, IF all = << >> THEN << >> ELSE << Lower(all[1]) >>)

QueryEntries(d, query) == EntriesFrom(Values(d), 1, SetToSeq(LowerWords(query)))

\* a response numbered by its own size instead of by the request
QueryResponseMessage_OwnId(request_id, entries) ==
    [ request_id |-> Len(entries), entries |-> entries ]

QueryResponseMessage(request_id, entries) ==
    [ request_id |-> request_id, entries |-> entries ]

\* a writer that sends nothing when there is no match
write_message_SkipEmpty(stream, message) ==
    IF message.entries = << >> THEN stream ELSE Append(stream, message)

\* write_message: one more framed message on the output stream
write_message(stream, message) == Append(stream, message)

\* a write that never reaches the disk
WriteFile_Lost(fs, path, data) == fs

\* the history of line 111: for every path, the runs of the host that wrote it
Counted(w, path, r) ==
    IF path \in DOMAIN w THEN [ w EXCEPT ![path] = Append(@, r) ] ELSE w @@ (path :> << r >>)

\* Path.write_bytes on a screenshot path: creates the file or replaces its content
WriteFile(fs, path, data) ==
    { f \in fs : f.path # path } \cup { [path |-> path, data |-> data] }

----------------------------------------------------------------------------
(* The state machine *)

Missing == [status |-> "missing", content |-> << >>]
Unreadable == [status |-> "unreadable", content |-> << >>]
Malformed == [status |-> "malformed", content |-> << >>]

\* positions at which the process has ended: main returned, or exit(1)
Ended == { "done", "fatal" }

\* a handler for the missing file only
OSErrorCaught_MissingOnly(status) == status = "missing"

\* the exceptions of reading the snapshot that line 156 catches: OSError only
\* (the file is missing, or there but not readable)
OSErrorCaught(status) == status \in { "missing", "unreadable" }

Init ==
    /\ pc = "load"
    /\ hash_to_entry = << >>
    /\ snapshot \in { Missing, Unreadable, Malformed }
    /\ files = {}
    /\ out = << >>
    /\ msg = << >>
    /\ entry = << >>
    /\ log = {}
    /\ fatal = "none"
    /\ handlerInstalled = FALSE
    /\ run = 1
    /\ framesRead = 0
    /\ queriesRead = << >>
    /\ lastSave = "none"
    /\ savedStore = << >>
    /\ preRestart = << >>
    /\ disk = IF snapshot.status = "malformed" THEN << [kind |-> "["] >> ELSE << >>
    /\ saves = << >>
    /\ interrupted = "none"
    /\ writes = << >>

\* main, lines 144-158: read the snapshot; only OSError is caught
LoadSnapshot ==
    /\ pc = "load"
    /\ \/ /\ OSErrorCaught(snapshot.status)
          /\ log' = log \cup { "warning: OSError deserializing" }
          /\ UNCHANGED << hash_to_entry, fatal >>
          /\ pc' = "install"
       \/ /\ snapshot.status = "ok"
          /\ LoadOk(snapshot.content)
          /\ hash_to_entry' = LoadEntries(snapshot.content)
          /\ UNCHANGED << log, fatal >>
          /\ pc' = "install"
       \/ /\ ~OSErrorCaught(snapshot.status)
          /\ snapshot.status = "ok" => ~LoadOk(snapshot.content)
          /\ log' = log \cup { "error: exception" }
          /\ fatal' = "snapshot"
          /\ pc' = "fatal"
          /\ UNCHANGED hash_to_entry
    /\ UNCHANGED << snapshot, files, out, msg, entry, handlerInstalled, run, framesRead,
                    queriesRead, lastSave, savedStore, preRestart,
                    disk, saves, interrupted, writes >>

\* main, lines 168-170: install the handler and call run_listener
InstallHandler ==
    /\ pc = "install"
    /\ handlerInstalled' = TRUE
    /\ pc' = "listener"
    /\ UNCHANGED << hash_to_entry, snapshot, files, out, msg, entry, log, fatal, run,
                    framesRead, queriesRead, lastSave, savedStore, preRestart,
                    disk, saves, interrupted, writes >>

\* run_listener, lines 68-70: the stop-word file is read, or its read raises
StartListener ==
    /\ pc = "listener"
    /\ \/ /\ pc' = "read"
          /\ log' = log \cup { "debug: Starting listener" }
          /\ UNCHANGED fatal
       \/ /\ pc' = "fatal"
          /\ fatal' = "stopwords"
          /\ log' = log \cup { "debug: Starting listener", "error: exception" }
    /\ UNCHANGED << hash_to_entry, snapshot, files, out, msg, entry, handlerInstalled,
                    run, framesRead, queriesRead, lastSave, savedStore, preRestart,
                    disk, saves, interrupted, writes >>

\* a read whose decoding error saves the store before the process ends
ReadMessage_SaveOnFatal ==
    /\ pc = "read"
    /\ framesRead < MaxFrames
    /\ \E frame \in Frames :
          LET r == from_bytes(frame)
          IN  IF r.ok
              THEN /\ msg' = << r.message >>
                   /\ pc' = "dispatch"
                   /\ log' = log \cup { "debug: Read message bytes" }
                   /\ queriesRead' = IF r.message.type = "query"
                                     THEN Append(queriesRead, r.message.request_id)
                                     ELSE queriesRead
                   /\ UNCHANGED << fatal, snapshot, lastSave, savedStore >>
              ELSE /\ msg' = << >>
                   /\ pc' = "fatal"
                   /\ fatal' = "protocol"
                   /\ log' = log \cup { "debug: Read message bytes", "error: exception" }
                   /\ UNCHANGED queriesRead
                   /\ snapshot' = SnapshotOf(hash_to_entry)
                   /\ disk' = write_bytes(disk, Pieces(snapshot'.content))
                   /\ lastSave' = "exit"
                   /\ savedStore' = hash_to_entry
    /\ framesRead' = framesRead + 1
    /\ UNCHANGED << hash_to_entry, files, out, entry, handlerInstalled, run,
                    preRestart,
                    saves, interrupted, writes >>

\* lines 72-76: read a frame and decode it; an exception of from_bytes leaves
\* run_listener and main and ends the process at lines 178-180
ReadMessage ==
    /\ pc = "read"
    /\ framesRead < MaxFrames
    /\ \E frame \in Frames :
          LET r == from_bytes(frame)
          IN  IF r.ok
              THEN /\ msg' = << r.message >>
                   /\ pc' = "dispatch"
                   /\ log' = log \cup { "debug: Read message bytes" }
                   /\ queriesRead' = IF r.message.type = "query"
                                     THEN Append(queriesRead, r.message.request_id)
                                     ELSE queriesRead
                   /\ UNCHANGED fatal
              ELSE /\ msg' = << >>
                   /\ pc' = "fatal"
                   /\ fatal' = "protocol"
                   /\ log' = log \cup { "debug: Read message bytes", "error: exception" }
                   /\ UNCHANGED queriesRead
    /\ framesRead' = framesRead + 1
    /\ UNCHANGED << hash_to_entry, snapshot, files, out, entry, handlerInstalled, run,
                    lastSave, savedStore, preRestart,
                    disk, saves, interrupted, writes >>

\* line 72: read_message returns nothing at end of stream; the loop ends
ReadEndOfStream ==
    /\ pc = "read"
    /\ pc' = "exit_save"
    /\ UNCHANGED << hash_to_entry, snapshot, files, out, msg, entry, log, fatal,
                    handlerInstalled, run, framesRead, queriesRead, lastSave,
                    savedStore, preRestart,
                    disk, saves, interrupted, writes >>

\* lines 78-109: hash the image, skip a known hash, recognize the text, skip an
\* empty word list, build the entry
AddRequest ==
    /\ pc = "dispatch"
    /\ msg[1].type = "add"
    /\ LET message == msg[1]
           image_data == b64decode(message.base64_img_data)
           image_hash == sha3_256(image_data)
           words == encoded_words(image_data, english_stop_words)
       IN  IF DictHas(hash_to_entry, image_hash)
           THEN /\ log' = log \cup { "debug: Skipped message" }
                /\ pc' = "read"
                /\ msg' = << >>
                /\ UNCHANGED entry
           ELSE IF words = {}
           THEN /\ log' = log \cup { "warning: No words in screenshot" }
                /\ pc' = "read"
                /\ msg' = << >>
                /\ UNCHANGED entry
           ELSE /\ entry' = << Entry(message.url, message.title, message.timestamp_ms,
                                     image_hash, from_values_2(words, 1)) >>
                /\ pc' = "add_write"
                /\ UNCHANGED << log, msg >>
    /\ UNCHANGED << hash_to_entry, snapshot, files, out, fatal, handlerInstalled, run,
                    framesRead, queriesRead, lastSave, savedStore, preRestart,
                    disk, saves, interrupted, writes >>

\* line 111: entry.image_path.write_bytes(image_data)
AddWriteFile ==
    /\ pc = "add_write"
    /\ files' = WriteFile(files, image_path(entry[1]), b64decode(msg[1].base64_img_data))
    /\ writes' = Counted(writes, image_path(entry[1]), run)
    /\ pc' = "add_insert"
    /\ UNCHANGED << hash_to_entry, snapshot, out, msg, entry, log, fatal,
                    handlerInstalled, run, framesRead, queriesRead, lastSave,
                    savedStore, preRestart,
                    disk, saves, interrupted >>

\* lines 112-114: hash_to_entry[image_hash] = entry
AddInsert ==
    /\ pc = "add_insert"
    /\ hash_to_entry' = DictSet(hash_to_entry, entry[1].hash_value, entry[1])
    /\ log' = log \cup { "info: Added entry" }
    /\ pc' = "read"
    /\ msg' = << >>
    /\ entry' = << >>
    /\ UNCHANGED << snapshot, files, out, fatal, handlerInstalled, run, framesRead,
                    queriesRead, lastSave, savedStore, preRestart,
                    disk, saves, interrupted, writes >>

\* lines 116-137: answer a Query with one QueryResponseMessage
QueryRequest ==
    /\ pc = "dispatch"
    /\ msg[1].type = "query"
    /\ out' = write_message(out, QueryResponseMessage(msg[1].request_id,
                                                      QueryEntries(hash_to_entry, msg[1].query)))
    /\ pc' = "read"
    /\ msg' = << >>
    /\ UNCHANGED << hash_to_entry, snapshot, files, entry, log, fatal, handlerInstalled,
                    run, framesRead, queriesRead, lastSave, savedStore, preRestart,
                    disk, saves, interrupted, writes >>

\* a handler that saves the store as it was when the process started
Sigterm_Stale ==
    /\ handlerInstalled
    /\ pc \notin Ended
    /\ snapshot' = SnapshotOf(preRestart)
    /\ disk' = write_bytes(disk, Pieces(snapshot'.content))
    /\ lastSave' = "signal"
    /\ savedStore' = hash_to_entry
    /\ UNCHANGED << pc, hash_to_entry, files, out, msg, entry, log, fatal,
                    handlerInstalled, run, framesRead, queriesRead, preRestart,
                    saves, interrupted, writes >>

\* a handler that saves and then ends the process
Sigterm_Exits ==
    /\ handlerInstalled
    /\ pc \notin Ended
    /\ snapshot' = SnapshotOf(hash_to_entry)
    /\ disk' = write_bytes(disk, Pieces(snapshot'.content))
    /\ lastSave' = "signal"
    /\ savedStore' = hash_to_entry
    /\ pc' = "done"
    /\ UNCHANGED << hash_to_entry, files, out, msg, entry, log, fatal,
                    handlerInstalled, run, framesRead, queriesRead, preRestart,
                    saves, interrupted, writes >>

\* lines 160-166, run by the signal: save_hash_to_entry on the store as it is now
Sigterm ==
    /\ handlerInstalled
    /\ pc \notin Ended
    /\ snapshot' = SnapshotOf(hash_to_entry)
    /\ disk' = write_bytes(disk, Pieces(snapshot'.content))
    /\ lastSave' = "signal"
    /\ savedStore' = hash_to_entry
    /\ UNCHANGED << pc, hash_to_entry, files, out, msg, entry, log, fatal,
                    handlerInstalled, run, framesRead, queriesRead, preRestart,
                    saves, interrupted, writes >>

\* an exit without the final save
ExitSave_NoWrite ==
    /\ pc = "exit_save"
    /\ pc' = "done"
    /\ UNCHANGED << hash_to_entry, snapshot, files, out, msg, entry, log, fatal,
                    handlerInstalled, run, framesRead, queriesRead, lastSave,
                    savedStore, preRestart,
                    disk, saves, interrupted, writes >>

\* line 172: save_hash_to_entry after run_listener returned, then main returns
ExitSave ==
    /\ pc = "exit_save"
    /\ snapshot' = SnapshotOf(hash_to_entry)
    /\ disk' = write_bytes(disk, Pieces(snapshot'.content))
    /\ lastSave' = "exit"
    /\ savedStore' = hash_to_entry
    /\ pc' = "done"
    /\ UNCHANGED << hash_to_entry, files, out, msg, entry, log, fatal,
                    handlerInstalled, run, framesRead, queriesRead, preRestart,
                    saves, interrupted, writes >>

\* the process is gone (it returned, exited with status 1, or was killed at any
\* point) and the host is started again: memory is lost, the files stay
Restart ==
    /\ run < MaxRuns
    /\ run' = run + 1
    /\ pc' = "load"
    /\ hash_to_entry' = << >>
    /\ out' = << >>
    /\ msg' = << >>
    /\ entry' = << >>
    /\ log' = {}
    /\ fatal' = "none"
    /\ handlerInstalled' = FALSE
    /\ queriesRead' = << >>
    /\ preRestart' = savedStore
    /\ saves' = << >>
    /\ UNCHANGED << snapshot, files, framesRead, lastSave, savedStore, disk,
                    interrupted, writes >>

Next ==
    \/ LoadSnapshot
    \/ InstallHandler
    \/ StartListener
    \/ ReadMessage
    \/ ReadEndOfStream
    \/ AddRequest
    \/ AddWriteFile
    \/ AddInsert
    \/ QueryRequest
    \/ Sigterm
    \/ ExitSave
    \/ Restart

Spec == Init /\ [][Next]_vars

----------------------------------------------------------------------------
(* The save, step by step.  The handler runs in the main thread, between two
   of its instructions, also between two instructions of a save that is under
   way; the interrupted code goes on when the handler has returned. *)

MaxSaveFrames == 1
MaxSaveDepth == 2

\* the save that is running: the last one called
Top == saves[Len(saves)]

\* where a save stands when a signal interrupts it
StandsAt(s) ==
    IF s.stage = "write" THEN (IF s.next = 0 THEN "emptied" ELSE "mid") ELSE s.stage

\* a call of save_hash_to_entry, lines 160-166: json_dumps has made the text of
\* the store as it is at the call; the file is yet to be opened
Call(owner) ==
    [ owner |-> owner, store |-> hash_to_entry, data |-> json_dumps(hash_to_entry),
      stage |-> "open", pos |-> 0, next |-> 0, before |-> disk, nestedAt |-> "none" ]

\* line 168: the signal arrives and the handler is called, over whatever runs
SignalArrives ==
    /\ handlerInstalled
    /\ pc \notin Ended
    /\ Len(saves) < MaxSaveDepth
    /\ saves' = IF saves = << >>
                THEN << Call("signal") >>
                ELSE Append([ saves EXCEPT ![Len(saves)].nestedAt = StandsAt(Top) ],
                            Call("signal"))
    /\ UNCHANGED << pc, hash_to_entry, snapshot, files, out, msg, entry, log, fatal,
                    handlerInstalled, run, framesRead, queriesRead, lastSave,
                    savedStore, preRestart, disk, interrupted, writes >>

\* line 172: run_listener has returned and main calls save_hash_to_entry
ExitSaveBegin ==
    /\ pc = "exit_save"
    /\ saves = << >>
    /\ saves' = << Call("exit") >>
    /\ UNCHANGED << pc, hash_to_entry, snapshot, files, out, msg, entry, log, fatal,
                    handlerInstalled, run, framesRead, queriesRead, lastSave,
                    savedStore, preRestart, disk, interrupted, writes >>

\* line 161, write_bytes: the running save opens the file
SaveOpen ==
    /\ saves # << >>
    /\ Top.stage = "open"
    /\ disk' = open_wb(disk).text
    /\ saves' = [ saves EXCEPT ![Len(saves)].stage = "write",
                               ![Len(saves)].pos = open_wb(disk).pos ]
    /\ snapshot' = json_loads(disk')
    /\ UNCHANGED << pc, hash_to_entry, files, out, msg, entry, log, fatal,
                    handlerInstalled, run, framesRead, queriesRead, lastSave,
                    savedStore, preRestart, interrupted, writes >>

\* line 161, write_bytes: the running save writes the next piece of its text
\* at the position of its own file object
SaveWrite ==
    /\ saves # << >>
    /\ Top.stage = "write"
    /\ disk' = WriteAt(disk, Top.pos, Top.data[Top.next + 1])
    /\ saves' = [ saves EXCEPT ![Len(saves)].pos = @ + 1,
                               ![Len(saves)].next = @ + 1,
                               ![Len(saves)].stage =
                                   IF Top.next + 1 = Len(Top.data) THEN "close" ELSE "write" ]
    /\ snapshot' = json_loads(disk')
    /\ UNCHANGED << pc, hash_to_entry, files, out, msg, entry, log, fatal,
                    handlerInstalled, run, framesRead, queriesRead, lastSave,
                    savedStore, preRestart, interrupted, writes >>

\* line 161, write_bytes: the running save closes the file and returns, to
\* the code it interrupted or, for the save of line 172, to the end of main
SaveClose ==
    /\ saves # << >>
    /\ Top.stage = "close"
    /\ saves' = SubSeq(saves, 1, Len(saves) - 1)
    /\ lastSave' = Top.owner
    /\ savedStore' = Top.store
    /\ interrupted' = IF Top.nestedAt # "none" THEN Top.nestedAt ELSE interrupted
    /\ pc' = IF Top.owner = "exit" THEN "done" ELSE pc
    /\ UNCHANGED << hash_to_entry, snapshot, files, out, msg, entry, log, fatal,
                    handlerInstalled, run, framesRead, queriesRead, preRestart,
                    disk, writes >>

\* the main thread goes on only when no handler runs over it
NextFine ==
    \/ saves = << >> /\ LoadSnapshot
    \/ saves = << >> /\ InstallHandler
    \/ saves = << >> /\ StartListener
    \/ saves = << >> /\ framesRead < MaxSaveFrames /\ ReadMessage
    \/ saves = << >> /\ ReadEndOfStream
    \/ saves = << >> /\ AddRequest
    \/ saves = << >> /\ AddWriteFile
    \/ saves = << >> /\ AddInsert
    \/ saves = << >> /\ QueryRequest
    \/ SignalArrives
    \/ ExitSaveBegin
    \/ SaveOpen
    \/ SaveWrite
    \/ SaveClose

SaveSpec == Init /\ [][NextFine]_vars

----------------------------------------------------------------------------
(* Claims *)

\* the image and hash of the Add request being dispatched
CurImage == b64decode(msg[1].base64_img_data)
CurHash == sha3_256(CurImage)
AtAdd == pc = "dispatch" /\ msg[1].type = "add"
AtQuery == pc = "dispatch" /\ msg[1].type = "query"

\* a step of the main thread of the running process: not a restart, and not
\* the signal handler, which leaves the position alone
MainStep == run' = run /\ pc' # pc

UniqueHashes(d) ==
    /\ \A i, j \in DOMAIN d : d[i].k = d[j].k => i = j
    /\ \A i \in DOMAIN d : d[i].v.hash_value = d[i].k

\* C1: the store never holds two entries with one content hash, and the
\* handling of an Add whose image hash is already in the store goes straight
\* back to reading, logs the skip, and leaves the store (so the entry's fields
\* and filter) and the screenshot files as they were.
C1_DedupNoOp ==
    [][ /\ UniqueHashes(hash_to_entry')
        /\ (AtAdd /\ CurHash \in Keys(hash_to_entry) /\ MainStep)
              => /\ pc' = "read"
                 /\ hash_to_entry' = hash_to_entry
                 /\ files' = files
                 /\ "debug: Skipped message" \in log' ]_vars

\* C1 witness: a second Add of a stored image has been skipped, with one entry
\* and one screenshot file in place
C1_Witness ==
    /\ run = 1
    /\ pc = "read"
    /\ "debug: Skipped message" \in log
    /\ Len(hash_to_entry) = 1
    /\ Cardinality(files) = 1

\* C2: a frame the codec rejects (unknown type, missing type, missing field)
\* never ends the process.
C2_BadFrameNotFatal == fatal # "protocol"

\* the images whose recognized text leaves no word after lowercasing,
\* de-duplication and stop-word removal
NoWordImages ==
    { i \in { b64decode(b) : b \in B64Images } :
         { Lower(w) : w \in Range(Split(image_to_string(i))) } \ english_stop_words = {} }

\* C3: handling an Add whose image yields no words goes back to reading with
\* the store and the screenshot files unchanged, and no such image is ever a
\* key of the store or the content of a screenshot file.
C3_EmptyTokensNeverStored ==
    [][ /\ (AtAdd /\ CurImage \in NoWordImages /\ MainStep)
              => /\ pc' = "read"
                 /\ hash_to_entry' = hash_to_entry
                 /\ files' = files
        /\ \A i \in NoWordImages :
              /\ sha3_256(i) \notin Keys(hash_to_entry')
              /\ \A f \in files' : f.data # i ]_vars

\* C3 witness: an Add of a stop-words-only image with a new hash was rejected
C3_Witness ==
    /\ pc = "read"
    /\ "warning: No words in screenshot" \in log
    /\ framesRead >= 1

\* C4: the responses written are one per Query request read, the one being
\* handled excepted: at every read of a frame each earlier Query has exactly
\* one response and the Adds have none.
C4_OneResponsePerQuery ==
    Len(out) = Len(queriesRead) - (IF AtQuery THEN 1 ELSE 0)

\* C4 witness: an Add and two Queries were handled, two responses are out
C4_Witness ==
    /\ pc = "read"
    /\ framesRead = 3
    /\ Len(queriesRead) = 2
    /\ Len(out) = 2
    /\ Len(hash_to_entry) = 1

\* C5: the k-th response written carries the request id of the k-th Query read.
C5_RequestIdEchoed ==
    /\ Len(out) <= Len(queriesRead)
    /\ \A k \in DOMAIN out : out[k].request_id = queriesRead[k]

\* C5 witness: two Queries with different request ids were answered, one of
\* them with matching entries
C5_Witness ==
    /\ Len(out) = 2
    /\ out[1].request_id # out[2].request_id
    /\ out[2].entries # << >>

\* the file holds a serialization of exactly the entries of store d
HoldsExactly(file, d) ==
    /\ file.status = "ok"
    /\ Len(file.content) = Len(d)
    /\ LoadOk(file.content)
    /\ LoadEntries(file.content) = d

\* C6: when main has returned (the read reported end of stream and the loop
\* ended without an exception), the snapshot file was written by the exit-time
\* save and holds exactly the entries of the store.
C6_EndOfStreamSaves ==
    pc = "done" => /\ fatal = "none"
                   /\ lastSave = "exit"
                   /\ HoldsExactly(snapshot, hash_to_entry)

\* C6 witness: the process has ended normally with two entries in the store
C6_Witness ==
    /\ pc = "done"
    /\ Len(hash_to_entry) = 2

\* a step of the signal handler: the process is alive with the handler
\* installed and the main thread does not move
SignalStep == handlerInstalled /\ pc \notin Ended /\ pc' = pc /\ run' = run

\* C7: at every position of a live process with the handler installed the
\* signal is handled, and handling it leaves the snapshot file holding exactly
\* the entries the store held at that moment, the store itself untouched.
C7_SignalSaves ==
    /\ [](handlerInstalled /\ pc \notin Ended => ENABLED Sigterm)
    /\ [][ SignalStep => /\ HoldsExactly(snapshot', hash_to_entry)
                         /\ hash_to_entry' = hash_to_entry ]_vars

\* C7 witness: a signal was handled in the middle of the second Add (its file
\* written, its entry not yet inserted), saving the one entry stored so far
C7_Witness ==
    /\ run = 1
    /\ pc = "add_insert"
    /\ lastSave = "signal"
    /\ Len(hash_to_entry) = 1
    /\ Len(snapshot.content) = 1

\* the entry store d holds for a hash
EntryOf(d, h) == (CHOOSE p \in Range(d) : p.k = h).v

\* the tokens membership is compared on: every word of every query text
TokenSample == { Encode(Lower(w)) : w \in UNION { Range(Split(q)) : q \in QueryTexts } }

\* C8: loading a written snapshot gives a store equivalent to the one that was
\* saved: the same hashes as keys, the same url, title and timestamp for each
\* hash, and for each hash a filter that answers membership as the saved one.
C8_RoundTrip ==
    snapshot.status = "ok" =>
        /\ LoadOk(snapshot.content)
        /\ LET loaded == LoadEntries(snapshot.content)
           IN  /\ Keys(loaded) = Keys(savedStore)
               /\ \A h \in Keys(savedStore) :
                     LET a == EntryOf(savedStore, h)
                         b == EntryOf(loaded, h)
                     IN  /\ b.hash_value = h
                         /\ b.url = a.url
                         /\ b.title = a.title
                         /\ b.timestamp_ms = a.timestamp_ms
                         /\ \A t \in TokenSample :
                               BloomContains(b.bloom_filter, t)
                                  = BloomContains(a.bloom_filter, t)

\* C8 witness: a snapshot of two entries with different filters has been
\* written and loaded again by the next process
C8_Witness ==
    /\ run = 2
    /\ pc = "install"
    /\ Len(hash_to_entry) = 2
    /\ hash_to_entry[1].v.bloom_filter # hash_to_entry[2].v.bloom_filter

\* the entries of store d a query text returns a record for
Matched(d, q) ==
    { e \in Range(Values(d)) : QueryResponseEntry(e) \in Range(QueryEntries(d, q)) }

\* positions of a process whose start-up load has succeeded
Loaded == { "install", "listener", "read", "dispatch", "add_write", "add_insert",
            "exit_save", "done" }

\* C9: in a restarted process, every entry of the persisted snapshot that a
\* query returned a record for before the restart is in the store again, and
\* the same query returns a record for it.
C9_MatchesSurviveRestart ==
    (run > 1 /\ pc \in Loaded) =>
        \A q \in QueryTexts :
            \A e \in Matched(preRestart, q) :
                /\ e.hash_value \in Keys(hash_to_entry)
                /\ e \in Matched(hash_to_entry, q)

\* C9 witness: one entry was added and persisted, the process restarted, a
\* second entry was added, and a query was then answered with a record for
\* the first entry
C9_Witness ==
    /\ run = 2
    /\ Len(preRestart) = 1
    /\ Len(hash_to_entry) = 2
    /\ Len(out) = 1
    /\ QueryResponseEntry(preRestart[1].v) \in Range(out[1].entries)

\* C10: a start-up that finds the snapshot file missing or unreadable logs a
\* warning, keeps the empty store and goes on, without a fatal error, to
\* install the signal handler and to enter run_listener.
C10_MissingSnapshotNotFatal ==
    [][ /\ (pc = "load" /\ snapshot.status \in { "missing", "unreadable" } /\ MainStep)
              => /\ pc' = "install"
                 /\ fatal' = "none"
                 /\ hash_to_entry' = << >>
                 /\ "warning: OSError deserializing" \in log'
        /\ (pc = "install" /\ MainStep)
              => /\ pc' = "listener"
                 /\ handlerInstalled'
                 /\ fatal' = "none" ]_vars

\* C10 witness: started on an unreadable snapshot file, the process is in the
\* session loop with the warning logged, the handler installed, the store empty
C10_Witness ==
    /\ run = 1
    /\ pc = "read"
    /\ framesRead = 0
    /\ snapshot.status = "unreadable"
    /\ "warning: OSError deserializing" \in log
    /\ handlerInstalled
    /\ hash_to_entry = << >>

\* the distinct lowercased whitespace-separated words of a query text
QueryTokens(q) == { Lower(w) : w \in Range(Split(q)) }

\* how often x occurs in a sequence
Count(seq, x) == Cardinality({ i \in DOMAIN seq : seq[i] = x })

\* the query tokens the filter of entry e contains
TokensIn(e, q) == { t \in QueryTokens(q) : BloomContains(e.bloom_filter, Encode(t)) }

\* C11: answering a Query writes one response whose entries are records of
\* stored entries only, each stored entry occurring once per distinct
\* lowercased query token its filter contains (stop words count as tokens).
C11_RecordPerEntryAndToken ==
    [][ (AtQuery /\ MainStep) =>
           /\ Len(out') = Len(out) + 1
           /\ LET entries == out'[Len(out')].entries
              IN  /\ \A e \in Range(Values(hash_to_entry)) :
                        Count(entries, QueryResponseEntry(e))
                           = Cardinality(TokensIn(e, msg[1].query))
                  /\ \A n \in DOMAIN entries :
                        \E e \in Range(Values(hash_to_entry)) :
                           entries[n] = QueryResponseEntry(e) ]_vars

\* C11 witness: a query of three words, two of them distinct, was answered
\* with the first entry twice and the second entry once
C11_Witness ==
    /\ Len(hash_to_entry) = 2
    /\ Len(out) = 1
    /\ Len(out[1].entries) = 3
    /\ out[1].entries[1] = out[1].entries[2]
    /\ out[1].entries[3] # out[1].entries[1]

\* query texts for the comparisons of C12 and C20: those of the frames, and
\* "yo", "hi Yo", "Hi"
CompareTexts ==
    QueryTexts \cup { << "y", "o" >>,
                      << "h", "i", " ", "Y", "o" >>,
                      << "H", "i" >> }

\* the sets of distinct tokens of those texts
CompareTokens == { QueryTokens(q) : q \in CompareTexts }

\* the (entry, token) pairs a query with the distinct tokens ts matches in
\* store d, by the filter test of the response's comprehension
MatchedPairs(d, ts) ==
    UNION { { << e, w >> : w \in Range(Hits(e, SetToSeq(ts))) }
            : e \in Range(Values(d)) }

\* C12: whenever the host is about to read a frame, whatever its store holds,
\* a query whose distinct tokens include those of another matches every
\* (entry, token) pair the other matches.
C12_MonotonicInQuery ==
    pc = "read" =>
       \A t1, t2 \in CompareTokens :
           t1 \subseteq t2
              => MatchedPairs(hash_to_entry, t1) \subseteq MatchedPairs(hash_to_entry, t2)

\* C12 witness: the store holds an entry that one query matches on one token
\* and a larger query matches on that token but not on its other token
C12_Witness ==
    pc = "read" /\ \E t1, t2 \in CompareTokens :
        \E e \in Range(Values(hash_to_entry)) :
            /\ t1 \subseteq t2
            /\ t1 # t2
            /\ \E w \in t1 : << e, w >> \in MatchedPairs(hash_to_entry, t1)
            /\ \E w \in t2 : << e, w >> \notin MatchedPairs(hash_to_entry, t2)

\* the words indexed for a stored entry: the lowercased words of the text
\* recognized in the image with its hash, stop words removed
IndexedWords(e) ==
    LET image == CHOOSE i \in { b64decode(b) : b \in B64Images } : sha3_256(i) = e.hash_value
    IN  QueryTokens(image_to_string(image)) \ english_stop_words

\* C20: whenever the host is about to read a frame, a query that holds, in
\* any letter case, a word indexed for a stored entry returns a record for
\* that entry, whatever else the query holds.
C20_IndexedWordIsFound ==
    pc = "read" =>
       \A q \in CompareTexts :
           LET returned == Range(QueryEntries(hash_to_entry, q))
           IN  \A e \in Range(Values(hash_to_entry)) :
                  (\E w \in Range(Split(q)) : Lower(w) \in IndexedWords(e))
                     => QueryResponseEntry(e) \in returned

\* C20 witness: the entry indexed with "yo" alone was returned once for the
\* query "Yo  hi yo"
C20_Witness ==
    /\ Len(hash_to_entry) = 1
    /\ IndexedWords(hash_to_entry[1].v) = { << "y", "o" >> }
    /\ Len(out) = 1
    /\ out[1].entries = << QueryResponseEntry(hash_to_entry[1].v) >>

\* C16: within one process, after the start-up load, the store changes only
\* by the insertion that ends a successful Add (a hash not yet stored, a
\* non-empty word set), and every entry in the store stays in it unchanged.
C16_EntriesImmutable ==
    [][ run' = run =>
           /\ \A h \in Keys(hash_to_entry) :
                 /\ h \in Keys(hash_to_entry')
                 /\ EntryOf(hash_to_entry', h) = EntryOf(hash_to_entry, h)
           /\ (hash_to_entry' # hash_to_entry /\ pc # "load") =>
                 /\ pc = "add_insert"
                 /\ msg[1].type = "add"
                 /\ CurHash \notin Keys(hash_to_entry)
                 /\ CurImage \notin NoWordImages
                 /\ hash_to_entry' = Append(hash_to_entry,
                                            [k |-> CurHash, v |-> entry[1]])
                 /\ entry[1].hash_value = CurHash
                 /\ entry[1].url = msg[1].url
                 /\ entry[1].title = msg[1].title
                 /\ entry[1].timestamp_ms = msg[1].timestamp_ms ]_vars

\* C16 witness: a second entry was added after a Query and a signal, the
\* first entry still in place
C16_Witness ==
    /\ run = 1
    /\ Len(hash_to_entry) = 2
    /\ Len(out) = 1
    /\ lastSave = "signal"
    /\ Len(snapshot.content) = 1

\* C17: the handling of a signal changes the snapshot file and nothing else
\* of the process: the store, the position of the loop, the responses and the
\* files stay, the loop goes on, and the snapshot changes by saves only.
C17_SignalOnlySaves ==
    [][ /\ SignalStep => UNCHANGED << pc, hash_to_entry, files, out, msg, entry, log,
                                      fatal, handlerInstalled, framesRead, queriesRead >>
        /\ (run' = run /\ snapshot' # snapshot) => (SignalStep \/ pc = "exit_save") ]_vars

\* C17 witness: a signal saved one entry, then a second Add was read and
\* handled: the store holds two entries, the snapshot still one
C17_Witness ==
    /\ run = 1
    /\ pc = "read"
    /\ lastSave = "signal"
    /\ Len(snapshot.content) = 1
    /\ Len(hash_to_entry) = 2
    /\ "info: Added entry" \in log

\* the screenshot file of entry e is there, with the bytes of its hash
HasFile(e) ==
    \E f \in files : f.path = image_path(e) /\ sha3_256(f.data) = e.hash_value

\* C18: every entry in the store has its screenshot file, and so has every
\* entry of a written snapshot, also one written by a signal between the file
\* write and the insertion of an Add.
C18_FileBeforeEntry ==
    /\ \A e \in Range(Values(hash_to_entry)) : HasFile(e)
    /\ snapshot.status = "ok" =>
          \A e \in Range(Values(LoadEntries(snapshot.content))) : HasFile(e)

\* C18 witness: a signal was handled between the file write and the insertion
\* of the second Add: two files, one entry in the store and in the snapshot
C18_Witness ==
    /\ run = 1
    /\ pc = "add_insert"
    /\ lastSave = "signal"
    /\ Cardinality(files) = 2
    /\ Len(hash_to_entry) = 1
    /\ Len(snapshot.content) = 1

\* C19: the step that ends the process through the fatal-error path leaves
\* the snapshot file alone, and nothing of an ended process writes it: the
\* file is missing as before or holds the store of its last write, without
\* the entries added since.
C19_FatalExitDoesNotSave ==
    /\ [](pc = "fatal" => \/ snapshot.status # "ok" /\ lastSave = "none"
                          \/ HoldsExactly(snapshot, savedStore))
    /\ [][ (run' = run /\ (pc' = "fatal" \/ pc = "fatal"))
              => snapshot' = snapshot /\ lastSave' = lastSave ]_vars

\* C19 witness: a rejected frame ended the process with two entries in the
\* store and a snapshot, written by a signal after the first Add, of one
C19_Witness ==
    /\ run = 1
    /\ pc = "fatal"
    /\ fatal = "protocol"
    /\ Len(hash_to_entry) = 2
    /\ lastSave = "signal"
    /\ Len(snapshot.content) = 1

\* C13 as stated: no screenshot path is written a second time.
C13_WrittenOnce == \A p \in DOMAIN writes : Len(writes[p]) <= 1

\* C13, amended: a screenshot path is written only by the Add of an image
\* whose hash the store does not hold, under that image's name and with that
\* image's bytes; a file once written is never deleted and its content never
\* changes; one run of the host writes a path at most once, and a later run
\* writes it again, with the same bytes, only when its store has lost the entry.
C13_WrittenOncePerRun ==
    /\ [](\A p \in DOMAIN writes :
            /\ \A i, j \in DOMAIN writes[p] : i < j => writes[p][i] < writes[p][j]
            /\ \E f \in files : f.path = p)
    /\ [][ /\ files \subseteq files'
           /\ (files' # files \/ writes' # writes) =>
                 /\ pc = "add_write"
                 /\ ~DictHas(hash_to_entry, CurHash)
                 /\ files' = files \cup { [path |-> image_path(entry[1]), data |-> CurImage] }
                 /\ entry[1].hash_value = CurHash
                 /\ writes' = Counted(writes, image_path(entry[1]), run)
         ]_vars

\* C13 witness: the second run, whose store had lost the entry, has written
\* the path the first run wrote; the file is there, once, with the same bytes
C13_Witness ==
    /\ run = 2
    /\ pc = "add_insert"
    /\ writes[image_path(entry[1])] = << 1, 2 >>
    /\ Cardinality({ f \in files : f.path = image_path(entry[1]) }) = 1
    /\ \E f \in files : f.path = image_path(entry[1]) /\ f.data = CurImage

\* the step in which the running save closes the file and returns
Closes == saves # << >> /\ Len(saves') = Len(saves) - 1

\* C14: a save called when the file holds a finished save of the same store,
\* and not itself interrupted, leaves the file as it found it, with the text
\* of one save and nothing added to it; the two saves may be two signals, a
\* signal and then the exit, or the exit and then a signal that arrives when
\* the exit's save has written its text and not yet returned.
C14_SaveIdempotent ==
    [][ (Closes /\ Top.nestedAt = "none" /\ Top.before = json_dumps(Top.store))
           => /\ disk' = Top.before
              /\ Len(disk') = Len(Top.store) + 2
              /\ json_loads(disk') = SnapshotOf(Top.store) ]_vars

\* C14 witness: the exit's save, of a store of one entry, had written its text
\* when a signal arrived; the signal's save has found that text in the file,
\* has run from open to close, and the file holds the text once
C14_Witness ==
    /\ Len(saves) = 1
    /\ Top.owner = "exit"
    /\ Top.stage = "close"
    /\ Top.nestedAt = "close"
    /\ lastSave = "signal"
    /\ Len(hash_to_entry) = 1
    /\ Len(disk) = 3

\* C15: whenever a save returns, also one that a signal interrupted at any of
\* its steps and one that ran inside another, the file holds the text of the
\* store from its first piece to its last, once; and the steps that a save
\* interrupted after it had opened the file takes, when the handler has
\* returned, find that text in the file and leave it as it is.
C15_InterruptedSaveComplete ==
    /\ [][ Closes => (disk' = json_dumps(Top.store) /\ Top.store = hash_to_entry) ]_vars
    /\ [][ (saves # << >> /\ Len(saves') <= Len(saves)
              /\ Top.nestedAt \in { "emptied", "mid", "close" })
             => (disk' = disk /\ disk = json_dumps(hash_to_entry)) ]_vars
    /\ []((saves = << >> /\ lastSave # "none") => disk = json_dumps(savedStore))

\* C15 witness: the exit's save, of a store of one entry, was interrupted by
\* a signal between two of its writes; both saves have returned
C15_Witness ==
    /\ pc = "done"
    /\ saves = << >>
    /\ interrupted = "mid"
    /\ lastSave = "exit"
    /\ Len(hash_to_entry) = 1

====
